---- MODULE Spec2Model ----
(***************************************************************************)
(* dnsflow: one worker process of the passive DNS observer (dnsflow.c).    *)
(* The worker is a single-threaded event loop: every action below is one   *)
(* callback run to completion (capture callback, push timer, stats timer)  *)
(* or a step of the environment (the wall clock).                          *)
(***************************************************************************)
EXTENDS Integers, Sequences, FiniteSets, TLC

VARIABLES
    now,              \* wall clock in seconds, what time(NULL) returns
    db_len,           \* data_buf->db_len
    hdr,              \* data_buf->db_pkt_hdr (the bytes stay when db_len is reset)
    sets,             \* the sets written after the header, in [8, db_len)
    sequence_number,  \* static uint32_t sequence_number
    last_send,        \* static time_t last_send
    pcap_record_dst_port, \* -X port (0 when not given)
    jmirror_dst_port,     \* -J port (0 when not given)
    heap_smashed,     \* a write went past the memory calloc gave data_buf
    pc,               \* "run" | "crashed"
    op,               \* the callback that ran last
    out,              \* buffers handed to dnsflow_pkt_send by the last callback
    logs,             \* lines written by _log in the last callback
    n_appended,       \* history: number of sets dnsflow_pkt_build started
    dropped,          \* history: ids of the sets the overflow guard discarded
    sent_ids,         \* history: ids of the sets of all emitted data buffers
    sent_seqs,        \* history: sequence_number of every emitted buffer
    n_sent,           \* history: number of buffers emitted by this worker
    n_push,           \* history: push timer firings
    push_at,          \* the time at which evtimer_add last armed push_ev
    waited,           \* history: ids of the sets that a push timer firing
                      \* left in the buffer
    n_stats,          \* history: stats timer firings
    guard_seq,        \* history: sequence_number at an overflow discard not yet
                      \* followed by an emission, <<>> otherwise
    traffic,          \* the (pkt_len, ip_pkt) pairs the capture can deliver
    call,             \* history: the input of the last callback (the frame, the
                      \* capture counters), or of the function under test
    ret,              \* the result of the function under test
    udp_num_dsts,     \* number of -u destinations in dst_so_addrs
    failing,          \* the destinations (1-based) whose sendto fails now
    sends,            \* the sendto calls of the last callback, in order
    exit_code,        \* exit status of the worker once pc = "exited"
    group             \* the processes of an auto-fork (-M) run

vars == <<now, db_len, hdr, sets, sequence_number, last_send,
          pcap_record_dst_port, jmirror_dst_port, heap_smashed, pc, op, out,
          logs, n_appended, dropped, sent_ids, sent_seqs, n_sent, n_push, push_at, waited,
          n_stats, guard_seq, traffic, call, ret, udp_num_dsts, failing,
          sends, exit_code, group>>

(***************************************************************************)
(* Program constants                                                       *)
(***************************************************************************)
DNSFLOW_MAX_PARSE == 255
DNSFLOW_PKT_MAX_SIZE == 65535
DNSFLOW_PKT_TARGET_SIZE == 1200
DNSFLOW_VERSION == 2
DNSFLOW_FLAG_STATS == 1
DNSFLOW_UDP_MAX_DSTS == 10
DNSFLOW_SETS_COUNT_MAX == 255
DNSFLOW_NAMES_COUNT_MAX == 255
DNSFLOW_IPS_COUNT_MAX == 255
LDNS_MAX_DOMAINLEN == 255
MAX_MPROC_CHILDREN == 64
IPVERSION == 4
IPPROTO_UDP == 17
PushTvSec == 1
SizeofIp == 20
SizeofUdphdr == 8
SizeofHdr == 8
SizeofSetHdr == 8
SizeofStatsPkt == 20
SizeofInAddr == 4
SizeofPcapSfPkthdr == 16
SizeofEtherHeader == 14
SizeofJmirrorHdr == 8
\* offsetof(struct dnsflow_buf, db_pkt_hdr): db_type, db_len, db_loop_hdr
OffsetofPktHdr == 12

U8 == 2^8
U16 == 2^16

\* A uint32_t is the pair <<high 16 bits, low 16 bits>> (the model checker's
\* integers are 32-bit signed); a count that does not wrap is such a pair
\* whose high part is not reduced.
U32Of(hi, lo) == <<hi % U16, lo % U16>>
Inc32(x) == IF x[2] + 1 < U16 THEN <<x[1], x[2] + 1>> ELSE <<(x[1] + 1) % U16, 0>>
IncCount(x) == IF x[2] + 1 < U16 THEN <<x[1], x[2] + 1>> ELSE <<x[1] + 1, 0>>
Less32(x, y) == x[1] < y[1] \/ (x[1] = y[1] /\ x[2] < y[2])

\* 32-bit unsigned arithmetic of the packet filter machine, n < 2^15
Div32(x, n) ==
    LET r == x[1] % n IN <<x[1] \div n, (r * U16 + x[2]) \div n>>
Mul32(x, n) ==
    LET lo == x[2] * n IN <<(x[1] * n + lo \div U16) % U16, lo % U16>>
Sub32(x, y) ==
    IF x[2] >= y[2]
    THEN <<(x[1] - y[1] + U16) % U16, x[2] - y[2]>>
    ELSE <<(x[1] - y[1] - 1 + 2 * U16) % U16, x[2] - y[2] + U16>>

\* sizeof(struct dnsflow_buf): three uint32_t, the header, the union
SizeofDnsflowBuf == OffsetofPktHdr + SizeofHdr + SizeofStatsPkt
\* bytes calloc gave data_buf counted from db_pkt_hdr, where pkt_start points
AllocFromHdr == SizeofDnsflowBuf + DNSFLOW_PKT_MAX_SIZE - OffsetofPktHdr

(***************************************************************************)
(* Bounds of the model                                                     *)
(***************************************************************************)
MaxSets == 3       \* sets appended in one run
MaxTimers == 2     \* timer firings (push and stats) in one run
MaxTime == 1       \* seconds the wall clock advances
Epoch == 5         \* time(NULL) when the worker starts
MaxAns == 2        \* answer RRs of the enumerated small responses
MaxProcs == 8      \* worker counts 2..MaxProcs (and MAX_MPROC_CHILDREN)
MaxFork == 3       \* processes of an auto-fork run, -M 1..MaxFork
MaxDsts == 2       \* -u destinations 1..MaxDsts (and DNSFLOW_UDP_MAX_DSTS)

MIN(a, b) == IF a < b THEN a ELSE b

\* total size of the names s[lo..hi]
RECURSIVE SumLens(_, _, _)
SumLens(s, lo, hi) ==
    IF lo > hi THEN 0
    ELSE IF lo = hi THEN s[lo].size
    ELSE SumLens(s, lo, (lo + hi) \div 2) + SumLens(s, (lo + hi) \div 2 + 1, hi)

RECURSIVE Flatten(_)
Flatten(ss) == IF ss = <<>> THEN <<>> ELSE ss[1] \o Flatten(Tail(ss))

(***************************************************************************)
(* Decapsulator: ip4_check, udp4_check, ip_udp_check, ip_encap_check.      *)
(* An IP packet is the record of the header fields the code reads:         *)
(*   ip_v, ip_hl, ip_len, ip_p, ip_dst, uh_ulen, uh_dport, and data, the   *)
(*   bytes after the UDP header: how they parse as DNS (dns) and the IP    *)
(*   packet found enc_off bytes into them (enc_ip, a sequence of 0 or 1).  *)
(***************************************************************************)
ip4_check(pkt_len, ip) ==
    /\ ~(pkt_len < SizeofIp)
    /\ ~(ip.ip_v # IPVERSION)
    /\ ~(pkt_len < ip.ip_hl * 4)
    /\ ~(pkt_len < ip.ip_len)
    /\ ~(ip.ip_len < ip.ip_hl * 4)

udp4_check(pkt_len, ip) ==
    /\ ~(ip.ip_p # IPPROTO_UDP)
    /\ ~(pkt_len < SizeofIp + SizeofUdphdr)
    /\ ~(pkt_len < ip.ip_hl * 4 + ip.uh_ulen)

\* TRUE when udp_data is not NULL; then ip and udphdr are those of the packet
ip_udp_check(pkt_len, ip) ==
    ip4_check(pkt_len, ip) /\ udp4_check(pkt_len, ip)

\* the bytes at encap_hdr + ip_encap_offset read as an IP packet
JunkIp ==
    [ip_v |-> 0, ip_hl |-> 0, ip_len |-> 0, ip_p |-> 0, ip_dst |-> 0,
     uh_ulen |-> 0, uh_dport |-> 0,
     data |-> [dns |-> <<>>, enc_off |-> 0, enc_ip |-> <<>>]]

IpAt(data, off) ==
    IF data.enc_ip # <<>> /\ data.enc_off = off THEN data.enc_ip[1] ELSE JunkIp

ip_encap_check(pkt_len, encap_data, ip_encap_offset) ==
    /\ ~(pkt_len < ip_encap_offset)
    /\ ip_udp_check(pkt_len - ip_encap_offset, IpAt(encap_data, ip_encap_offset))

(***************************************************************************)
(* DNS decoder.  A message is what ldns_wire2pkt returns: parse_ok, the    *)
(* flag bits, rcode, qdcount, the first question (qtype, qname) and the    *)
(* answer RRs, each a type and its rdata fields (size, data).              *)
(***************************************************************************)
LDNS_RR_TYPE_A == 1
LDNS_RR_TYPE_CNAME == 5
LDNS_RR_TYPE_AAAA == 28
LDNS_RCODE_NOERROR == 0

\* TRUE when the returned ldns_pkt is not NULL
dnsflow_dns_check_mut_norcode(lp) ==
    /\ lp.parse_ok
    /\ ~(lp.qr # 1 \/ lp.rd # 1 \/ lp.ra # 1)
    /\ ~(lp.qdcount # 1)
    /\ ~(lp.qtype # LDNS_RR_TYPE_A)

dnsflow_dns_check(lp) ==
    /\ lp.parse_ok
    /\ ~(lp.qr # 1 \/ lp.rd # 1 \/ lp.ra # 1 \/ lp.rcode # LDNS_RCODE_NOERROR)
    /\ ~(lp.qdcount # 1)
    /\ ~(lp.qtype # LDNS_RR_TYPE_A)

\* the inner loop over the rdata fields of one answer RR (index j)
RECURSIVE ExtractRdfs(_, _, _, _)
ExtractRdfs(data, rr_type, rdfs, j) ==
    IF j > Len(rdfs) THEN data
    ELSE LET rdf == rdfs[j] IN
         IF rr_type = LDNS_RR_TYPE_CNAME THEN
             IF data.num_names = DNSFLOW_MAX_PARSE THEN
                 ExtractRdfs([data EXCEPT !.logs = Append(@, "Too many names")],
                             rr_type, rdfs, j + 1)
             ELSE IF rdf.size > LDNS_MAX_DOMAINLEN THEN
                 ExtractRdfs([data EXCEPT !.logs = Append(@, "Invalid name")],
                             rr_type, rdfs, j + 1)
             ELSE
                 ExtractRdfs([data EXCEPT !.names = Append(@, rdf),
                                          !.num_names = @ + 1],
                             rr_type, rdfs, j + 1)
         ELSE IF rr_type = LDNS_RR_TYPE_A THEN
             IF data.num_ips = DNSFLOW_MAX_PARSE THEN
                 ExtractRdfs([data EXCEPT !.logs = Append(@, "Too many ips")],
                             rr_type, rdfs, j + 1)
             ELSE
                 ExtractRdfs([data EXCEPT !.ips = Append(@, rdf.data),
                                          !.num_ips = @ + 1],
                             rr_type, rdfs, j + 1)
         ELSE ExtractRdfs(data, rr_type, rdfs, j + 1)

\* the outer loop over the answer RRs: its iterations i = lo..hi in order
\* (split in halves only to keep the evaluation shallow)
RECURSIVE ExtractAnswers(_, _, _, _)
ExtractAnswers(data, answers, lo, hi) ==
    IF lo > hi THEN data
    ELSE IF lo = hi
    THEN ExtractRdfs(data, answers[lo].type, answers[lo].rdfs, 1)
    ELSE LET mid == (lo + hi) \div 2
             left == ExtractAnswers(data, answers, lo, mid)
         IN  \* the test only makes the first half be evaluated first
             IF left.num_names + left.num_ips >= 0
             THEN ExtractAnswers(left, answers, mid + 1, hi)
             ELSE left

\* dnsflow_dns_extract: the record data[1], with ok = FALSE for a NULL return
dnsflow_dns_extract_mut_swap(lp) ==
    LET d0 == [ok |-> TRUE, names |-> <<>>, num_names |-> 0,
               ips |-> <<>>, num_ips |-> 0, logs |-> <<>>]
    IN  IF lp.qname.size > LDNS_MAX_DOMAINLEN
        THEN [d0 EXCEPT !.ok = FALSE, !.logs = <<"Invalid query string">>]
        ELSE LET d2 == ExtractAnswers(d0, lp.answers, 1, Len(lp.answers))
                 d1 == [d2 EXCEPT !.names = Append(@, lp.qname),
                                  !.num_names = @ + 1]
             IN  IF d1.num_names = 0 THEN [d1 EXCEPT !.ok = FALSE]
                 ELSE IF d1.num_ips = 0 THEN [d1 EXCEPT !.ok = FALSE]
                 ELSE d1

dnsflow_dns_extract(lp) ==
    LET d0 == [ok |-> TRUE, names |-> <<>>, num_names |-> 0,
               ips |-> <<>>, num_ips |-> 0, logs |-> <<>>]
    IN  IF lp.qname.size > LDNS_MAX_DOMAINLEN
        THEN [d0 EXCEPT !.ok = FALSE, !.logs = <<"Invalid query string">>]
        ELSE LET d1 == [d0 EXCEPT !.names = <<lp.qname>>, !.num_names = 1]
                 d2 == ExtractAnswers(d1, lp.answers, 1, Len(lp.answers))
             IN  IF d2.num_names = 0 THEN [d2 EXCEPT !.ok = FALSE]
                 ELSE IF d2.num_ips = 0 THEN [d2 EXCEPT !.ok = FALSE]
                 ELSE d2

(***************************************************************************)
(* Emitter and batcher.  The operators take and return the worker record w *)
(* (the globals the callbacks touch) so that one callback is one value.    *)
(***************************************************************************)
W ==
    [db_len |-> db_len, hdr |-> hdr, sets |-> sets,
     sequence_number |-> sequence_number, last_send |-> last_send,
     heap_smashed |-> heap_smashed, out |-> <<>>, logs |-> <<>>,
     n_appended |-> n_appended, dropped |-> dropped,
     udp_num_dsts |-> udp_num_dsts, failing |-> failing, sends |-> <<>>,
     pc |-> pc, exit_code |-> exit_code]

\* dnsflow_pkt_send: the buffer (db_len bytes from db_pkt_hdr) goes to the
\* dump file and to every UDP destination
\* one sendto per destination, in the order of dst_so_addrs
SendLoop(w, buf) ==
    [i \in 1..w.udp_num_dsts |->
        [dst |-> i, seq |-> buf.hdr.sequence_number, len |-> buf.db_len,
         ok |-> i \notin w.failing]]

\* the loop leaves at the first sendto that fails
dnsflow_pkt_send_mut_break(w, buf) ==
    LET all == SendLoop(w, buf)
        bad == { i \in 1..Len(all) : ~all[i].ok }
        last == IF bad = {} THEN Len(all)
                ELSE CHOOSE i \in bad : \A j \in bad : i <= j
    IN  [w EXCEPT !.out = Append(@, buf),
                  !.sends = @ \o SubSeq(all, 1, last)]

dnsflow_pkt_send(w, buf) ==
    LET all == SendLoop(w, buf)
        warn == [i \in 1..Len(SelectSeq(all, LAMBDA a : ~a.ok)) |-> "send failed"]
    IN  [w EXCEPT !.out = Append(@, buf),
                  !.sends = @ \o all,
                  !.logs = @ \o warn]

dnsflow_pkt_send_data_mut_noinc(w, t) ==
    IF w.db_len = 0 THEN w
    ELSE LET h == [w.hdr EXCEPT !.sequence_number = w.sequence_number]
             w1 == [w EXCEPT !.hdr = h]
             w2 == dnsflow_pkt_send(w1, [db_type |-> "DNSFLOW_DATA",
                                         db_len |-> w1.db_len,
                                         hdr |-> h, body |-> w1.sets])
         IN  [w2 EXCEPT !.db_len = 0, !.sets = <<>>, !.last_send = t]

dnsflow_pkt_send_data_mut_noreset(w, t) ==
    IF w.db_len = 0 THEN w
    ELSE LET h == [w.hdr EXCEPT !.sequence_number = w.sequence_number]
             w1 == [w EXCEPT !.hdr = h,
                             !.sequence_number = Inc32(w.sequence_number)]
             w2 == dnsflow_pkt_send(w1, [db_type |-> "DNSFLOW_DATA",
                                         db_len |-> w1.db_len,
                                         hdr |-> h, body |-> w1.sets])
         IN  [w2 EXCEPT !.last_send = t]

dnsflow_pkt_send_data_mut_empty(w, t) ==
    LET h == [w.hdr EXCEPT !.sequence_number = w.sequence_number]
        w1 == [w EXCEPT !.hdr = h,
                        !.sequence_number = Inc32(w.sequence_number)]
        w2 == dnsflow_pkt_send(w1, [db_type |-> "DNSFLOW_DATA",
                                    db_len |-> w1.db_len,
                                    hdr |-> h, body |-> w1.sets])
    IN  [w2 EXCEPT !.db_len = 0, !.sets = <<>>, !.last_send = t]

\* t is what time(NULL) returns
dnsflow_pkt_send_data(w, t) ==
    IF w.db_len = 0 THEN w
    ELSE LET h == [w.hdr EXCEPT !.sequence_number = w.sequence_number]
             w1 == [w EXCEPT !.hdr = h,
                             !.sequence_number = Inc32(w.sequence_number)]
             w2 == dnsflow_pkt_send(w1, [db_type |-> "DNSFLOW_DATA",
                                         db_len |-> w1.db_len,
                                         hdr |-> h, body |-> w1.sets])
         IN  [w2 EXCEPT !.db_len = 0, !.sets = <<>>, !.last_send = t]

\* the test is for more than push_tv.tv_sec
dnsflow_push_cb_mut_strict(w, t) ==
    IF t - w.last_send > PushTvSec THEN dnsflow_pkt_send_data(w, t) ELSE w

dnsflow_push_cb_mut_always(w, t) ==
    dnsflow_pkt_send_data(w, t)

dnsflow_push_cb(w, t) ==
    IF t - w.last_send >= PushTvSec THEN dnsflow_pkt_send_data(w, t) ELSE w

\* one iteration of the loop copying the names: st.len is db_len, st.ok is
\* FALSE once the function has returned; pkt_end - pkt_cur is
\* DNSFLOW_PKT_MAX_SIZE - 1 - db_len
CopyName(st, name_len) ==
    IF ~st.ok THEN st
    ELSE IF name_len > DNSFLOW_PKT_MAX_SIZE - 1 - st.len
    THEN [ok |-> FALSE, len |-> st.len]
    ELSE [ok |-> TRUE, len |-> st.len + name_len]

\* the iterations i = lo..hi of that loop in order (split in halves only to
\* keep the evaluation shallow)
RECURSIVE CopyNames(_, _, _, _)
CopyNames(st, dns_data, lo, hi) ==
    IF lo > hi THEN st
    ELSE IF lo = hi THEN CopyName(st, dns_data.names[lo].size)
    ELSE LET mid == (lo + hi) \div 2
             left == CopyNames(st, dns_data, lo, mid)
         IN  IF ~left.ok THEN left
             ELSE CopyNames(left, dns_data, mid + 1, hi)

\* while (db_len % 4 != 0) db_len++
RECURSIVE PadToWord_mut_half(_)
PadToWord_mut_half(len) == IF len % 2 # 0 THEN PadToWord_mut_half(len + 1) ELSE len

RECURSIVE PadToWord(_)
PadToWord(len) == IF len % 4 # 0 THEN PadToWord(len + 1) ELSE len

IdsOf(ss) == [i \in 1..Len(ss) |-> ss[i].id]
Range(s) == {s[i] : i \in 1..Len(s)}

\* the "Not enough room" branch: log, drop the buffer, return
OverflowDiscard_mut_keep(w, id) ==
    [w EXCEPT !.logs = Append(@, "Pkt create error"),
              !.n_appended = id]

OverflowDiscard(w, id) ==
    [w EXCEPT !.db_len = 0,
              !.sets = <<>>,
              !.logs = Append(@, "Pkt create error"),
              !.n_appended = id,
              !.dropped = @ \cup Range(IdsOf(w.sets)) \cup {id}]

\* the test that ends dnsflow_pkt_build
SizeTrigger_mut_countonly(w) ==
    w.hdr.sets_count = DNSFLOW_SETS_COUNT_MAX

SizeTrigger(w) ==
    \/ w.db_len >= DNSFLOW_PKT_TARGET_SIZE
    \/ w.hdr.sets_count = DNSFLOW_SETS_COUNT_MAX

dnsflow_pkt_build(w, client_ip, dns_data, t) ==
    LET w1 == IF w.db_len = 0
              THEN [w EXCEPT !.hdr = [version |-> DNSFLOW_VERSION,
                                      sets_count |-> 0, flags |-> 0,
                                      sequence_number |-> U32Of(0, 0)],
                             !.db_len = SizeofHdr,
                             !.sets = <<>>]
              ELSE w
        id == w.n_appended + 1
        names_count == MIN(dns_data.num_names, DNSFLOW_NAMES_COUNT_MAX) % U8
        ips_count == MIN(dns_data.num_ips, DNSFLOW_IPS_COUNT_MAX) % U8
        names_start == w1.db_len + SizeofSetHdr
        nm == CopyNames([ok |-> TRUE, len |-> names_start], dns_data, 1, names_count)
    IN  IF ~nm.ok
        THEN OverflowDiscard(w1, id)
        ELSE LET padded == PadToWord(nm.len)
                 len3 == padded + SizeofInAddr * ips_count
                 set == [client_ip |-> client_ip,
                         names_count |-> names_count,
                         ips_count |-> ips_count,
                         names_len |-> (padded - names_start) % U16,
                         names |-> SubSeq(dns_data.names, 1, names_count),
                         pad |-> padded - nm.len,
                         ips |-> SubSeq(dns_data.ips, 1, ips_count),
                         id |-> id]
                 w2 == [w1 EXCEPT !.db_len = len3,
                                  !.sets = Append(@, set),
                                  !.hdr.sets_count = (@ + 1) % U8,
                                  !.heap_smashed = @ \/ len3 > AllocFromHdr,
                                  !.n_appended = id]
             IN  IF SizeTrigger(w2)
                 THEN dnsflow_pkt_send_data(w2, t)
                 ELSE w2

\* the header of the stats buffer is left without the flag
dnsflow_stats_cb_mut_noflag(w, ds, rate) ==
    LET buf == [db_type |-> "DNSFLOW_STATS",
                db_len |-> SizeofHdr + SizeofStatsPkt,
                hdr |-> [version |-> DNSFLOW_VERSION, sets_count |-> 1,
                         flags |-> 0,
                         sequence_number |-> w.sequence_number],
                body |-> <<[pkts_captured |-> ds.captured,
                            pkts_received |-> ds.ps_recv,
                            pkts_dropped |-> ds.ps_drop,
                            pkts_ifdropped |-> ds.ps_ifdrop,
                            sample_rate |-> rate]>>]
        w1 == [w EXCEPT !.sequence_number = Inc32(w.sequence_number)]
    IN  dnsflow_pkt_send(w1, buf)

\* the stats buffer is built in data_buf, over the pending sets
dnsflow_stats_cb_mut_shared(w, ds, rate) ==
    LET buf == [db_type |-> "DNSFLOW_STATS",
                db_len |-> SizeofHdr + SizeofStatsPkt,
                hdr |-> [version |-> DNSFLOW_VERSION, sets_count |-> 1,
                         flags |-> DNSFLOW_FLAG_STATS,
                         sequence_number |-> w.sequence_number],
                body |-> <<[pkts_captured |-> ds.captured,
                            pkts_received |-> ds.ps_recv,
                            pkts_dropped |-> ds.ps_drop,
                            pkts_ifdropped |-> ds.ps_ifdrop,
                            sample_rate |-> rate]>>]
        w1 == [w EXCEPT !.sequence_number = Inc32(w.sequence_number),
                        !.db_len = 0, !.sets = <<>>, !.hdr = buf.hdr]
    IN  dnsflow_pkt_send(w1, buf)

\* dnsflow_stats_cb: ds is what dcap_get_stats returns, rate dcap->sample_rate
dnsflow_stats_cb(w, ds, rate) ==
    LET buf == [db_type |-> "DNSFLOW_STATS",
                db_len |-> SizeofHdr + SizeofStatsPkt,
                hdr |-> [version |-> DNSFLOW_VERSION, sets_count |-> 1,
                         flags |-> DNSFLOW_FLAG_STATS,
                         sequence_number |-> w.sequence_number],
                body |-> <<[pkts_captured |-> ds.captured,
                            pkts_received |-> ds.ps_recv,
                            pkts_dropped |-> ds.ps_drop,
                            pkts_ifdropped |-> ds.ps_ifdrop,
                            sample_rate |-> rate]>>]
        w1 == [w EXCEPT !.sequence_number = Inc32(w.sequence_number)]
    IN  dnsflow_pkt_send(w1, buf)

(***************************************************************************)
(* Inputs: DNS messages as ldns decodes them, and the frames carrying them *)
(***************************************************************************)
Rdf(n, d) == [size |-> n, data |-> d]
CnameRR(i, n) == [type |-> LDNS_RR_TYPE_CNAME, rdfs |-> <<Rdf(n, <<"cname", i>>)>>]
ARR(i) == [type |-> LDNS_RR_TYPE_A, rdfs |-> <<Rdf(SizeofInAddr, <<"a", i>>)>>]
AaaaRR(i) == [type |-> LDNS_RR_TYPE_AAAA, rdfs |-> <<Rdf(16, <<"aaaa", i>>)>>]

\* nc CNAME RRs with targets of n bytes, then na A RRs
Bulk(nc, n, na) ==
    [i \in 1..(nc + na) |-> IF i <= nc THEN CnameRR(i, n) ELSE ARR(i)]

\* a recursive NOERROR reply to one A question
Response(qsize, answers) ==
    [parse_ok |-> TRUE, qr |-> 1, rd |-> 1, ra |-> 1,
     rcode |-> LDNS_RCODE_NOERROR, qdcount |-> 1, qtype |-> LDNS_RR_TYPE_A,
     qname |-> Rdf(qsize, <<"q">>), answers |-> answers]

SingleA == Response(13, <<ARR(1)>>)
CnameChain == Response(14, <<CnameRR(1, 10), ARR(2)>>)
\* four names of 255 bytes: a set of 8 + 1020 + 4 bytes
FourLong == Response(LDNS_MAX_DOMAINLEN, Bulk(3, LDNS_MAX_DOMAINLEN, 1))
\* more long names and more addresses than a set can hold
Oversized ==
    Response(LDNS_MAX_DOMAINLEN,
             Bulk(DNSFLOW_MAX_PARSE, LDNS_MAX_DOMAINLEN, DNSFLOW_MAX_PARSE + 1))

Accepted == {SingleA, CnameChain, FourLong, Oversized}

Rejected ==
    { [SingleA EXCEPT !.parse_ok = FALSE],
      [SingleA EXCEPT !.qr = 0],
      [SingleA EXCEPT !.rd = 0],
      [SingleA EXCEPT !.ra = 0],
      [SingleA EXCEPT !.rcode = 2],
      [SingleA EXCEPT !.qdcount = 0],
      [SingleA EXCEPT !.qdcount = 2],
      [SingleA EXCEPT !.qtype = LDNS_RR_TYPE_AAAA],
      Response(13, <<CnameRR(1, 10)>>) }

Messages == Accepted \cup Rejected

\* bytes of the message on the wire (names compressed)
WireLen(lp) == 12 + MIN(lp.qname.size, LDNS_MAX_DOMAINLEN) + 4 + 16 * Len(lp.answers)

ClientIps == {167772167}       \* 10.0.0.7

\* a DNS message in a bare IPv4/UDP packet, captured whole
Bare(dst, lp) ==
    [ip_v |-> IPVERSION, ip_hl |-> 5,
     ip_len |-> SizeofIp + SizeofUdphdr + WireLen(lp),
     ip_p |-> IPPROTO_UDP, ip_dst |-> dst,
     uh_ulen |-> SizeofUdphdr + WireLen(lp), uh_dport |-> 40000,
     data |-> [dns |-> lp, enc_off |-> 0, enc_ip |-> <<>>]]

Frame(pkt_len, ip_pkt) == [pkt_len |-> pkt_len, ip_pkt |-> ip_pkt]
Whole(ip_pkt) == Frame(ip_pkt.ip_len, ip_pkt)

\* frames the checks of the decapsulator refuse: IPv6, TCP, cut short
BadFrames ==
    { Whole([Bare(c, SingleA) EXCEPT !.ip_v = 6]) : c \in ClientIps }
    \cup { Whole([Bare(c, SingleA) EXCEPT !.ip_p = 6]) : c \in ClientIps }
    \cup { Frame(Bare(c, SingleA).ip_len - 1, Bare(c, SingleA)) : c \in ClientIps }

\* the traffic of a run: responses of every size and one that is dropped
\* before the batcher
TrafficMain ==
    { Whole(Bare(c, m)) : c \in ClientIps, m \in {SingleA, FourLong, Oversized} }
    \cup { Whole(Bare(c, [SingleA EXCEPT !.rcode = 2])) : c \in ClientIps }

\* the traffic of a run made of small responses and of every kind of
\* message and frame that is dropped
TrafficGate ==
    { Whole(Bare(c, m)) : c \in ClientIps, m \in {SingleA, CnameChain} \cup Rejected }
    \cup BadFrames

DcapStats ==
    { [captured |-> 100, ps_recv |-> 120, ps_drop |-> 5, ps_ifdrop |-> 0,
       sample_rate |-> 4] }

\* dnsflow_dns_extract of every message of the model, computed once
Extracted == [m \in Messages |-> dnsflow_dns_extract(m)]

\* dnsflow_dcap_cb: cfg holds pcap_record_dst_port and jmirror_dst_port
\* the Ethernet header of the pcap record is not counted
EncapOffset_mut_noether(uh_dport, cfg) ==
    IF uh_dport = cfg.pcap_record_dst_port
    THEN SizeofPcapSfPkthdr
    ELSE IF uh_dport = cfg.jmirror_dst_port
    THEN SizeofJmirrorHdr + SizeofEtherHeader
    ELSE 0

\* "Handle various encapsulations": the bytes between the outer UDP header
\* and the inner IP header, 0 for a bare packet
EncapOffset(uh_dport, cfg) ==
    IF uh_dport = cfg.pcap_record_dst_port
    THEN SizeofPcapSfPkthdr + SizeofEtherHeader
    ELSE IF uh_dport = cfg.jmirror_dst_port
    THEN SizeofJmirrorHdr
    ELSE 0

dnsflow_dcap_cb(w, pkt_len, ip_pkt, cfg, t) ==
    IF ~ip_udp_check(pkt_len, ip_pkt) THEN w
    ELSE
    LET remaining == pkt_len - (ip_pkt.ip_hl * 4 + SizeofUdphdr)
        ip_encap_offset == EncapOffset(ip_pkt.uh_dport, cfg)
        ip == IF ip_encap_offset # 0 THEN IpAt(ip_pkt.data, ip_encap_offset)
              ELSE ip_pkt
    IN  IF ip_encap_offset # 0
           /\ ~ip_encap_check(remaining, ip_pkt.data, ip_encap_offset)
        THEN w
        ELSE
        LET lp == ip.data.dns IN
        IF ~lp.parse_ok THEN [w EXCEPT !.logs = Append(@, "Bad DNS pkt")]
        ELSE IF ~dnsflow_dns_check(lp) THEN w
        ELSE LET dns_data == Extracted[lp]
                 w1 == [w EXCEPT !.logs = @ \o dns_data.logs]
             IN  IF ~dns_data.ok THEN w1
                 ELSE dnsflow_pkt_build(w1, ip.ip_dst, dns_data, t)

\* buffers the worker emitted before the run that is observed: none, or so
\* many that sequence_number is the largest uint32_t
StartEmitted == {<<0, 0>>, <<U16 - 1, U16 - 2>>}

(***************************************************************************)
(* The worker as a state machine                                           *)
(***************************************************************************)
Cfg == [pcap_record_dst_port |-> pcap_record_dst_port,
        jmirror_dst_port |-> jmirror_dst_port]

DataIds(bufs) ==
    Flatten([i \in 1..Len(bufs) |->
                IF bufs[i].db_type = "DNSFLOW_DATA" THEN IdsOf(bufs[i].body)
                ELSE <<>>])

\* the globals after a callback, and the history of what it emitted
Commit(w, name) ==
    /\ db_len' = w.db_len
    /\ hdr' = w.hdr
    /\ sets' = w.sets
    /\ sequence_number' = w.sequence_number
    /\ last_send' = w.last_send
    /\ heap_smashed' = w.heap_smashed
    /\ out' = w.out
    /\ sends' = w.sends
    /\ logs' = w.logs
    /\ n_appended' = w.n_appended
    /\ dropped' = w.dropped
    /\ op' = name
    /\ n_sent' = IF w.out # <<>> THEN IncCount(n_sent) ELSE n_sent
    /\ sent_seqs' = sent_seqs \o [i \in 1..Len(w.out) |-> w.out[i].hdr.sequence_number]
    /\ sent_ids' = sent_ids \o DataIds(w.out)
    /\ guard_seq' = IF "Pkt create error" \in Range(w.logs) THEN sequence_number
                    ELSE IF w.out # <<>> THEN <<>>
                    ELSE guard_seq

InitWith(frames, emitted, input) ==
    /\ now = Epoch
    /\ db_len = 0
    /\ hdr = [version |-> 0, sets_count |-> 0, flags |-> 0, sequence_number |-> U32Of(0, 0)]
    /\ sets = <<>>
    /\ n_sent = emitted
    /\ sequence_number = Inc32(n_sent)
    /\ last_send = 0
    /\ heap_smashed = FALSE
    /\ pc = "run"
    /\ op = "main"
    /\ out = <<>>
    /\ logs = <<>>
    /\ n_appended = 0
    /\ dropped = {}
    /\ sent_ids = <<>>
    /\ sent_seqs = <<>>
    /\ n_push = 0
    /\ push_at = Epoch - PushTvSec
    /\ waited = {}
    /\ n_stats = 0
    /\ guard_seq = <<>>
    /\ traffic = frames
    /\ call = input
    /\ ret = <<>>
    /\ sends = <<>>
    /\ exit_code = -1

\* one worker started without -M, one -u destination that takes every send
NoEncap ==
    /\ pcap_record_dst_port = 0
    /\ jmirror_dst_port = 0

Solo ==
    /\ NoEncap
    /\ udp_num_dsts = 1
    /\ failing = {}
    /\ group = <<>>

Init ==
    /\ \E emitted \in StartEmitted : InitWith(TrafficMain, emitted, <<>>)
    /\ Solo

\* the capture adapter delivers one packet
DcapCb ==
    /\ pc = "run"
    /\ n_appended < MaxSets
    /\ \E f \in traffic :
           /\ Commit(dnsflow_dcap_cb(W, f.pkt_len, f.ip_pkt, Cfg, now), "dcap")
           /\ call' = f
    /\ UNCHANGED <<now, pcap_record_dst_port, jmirror_dst_port, pc, n_push, push_at, waited,
                   n_stats, traffic, ret, udp_num_dsts, failing, exit_code,
                   group>>

\* the push timer fires
PushCb ==
    /\ pc = "run"
    /\ n_push + n_stats < MaxTimers
    /\ Commit(dnsflow_push_cb(W, now), "push")
    /\ n_push' = n_push + 1
    /\ push_at' = now
    /\ waited' = waited \cup Range(IdsOf(sets'))
    /\ call' = <<>>
    /\ UNCHANGED <<now, pcap_record_dst_port, jmirror_dst_port, pc, n_stats,
                   traffic, ret, udp_num_dsts, failing, exit_code, group>>

\* the stats timer fires
StatsCb ==
    /\ pc = "run"
    /\ n_push + n_stats < MaxTimers
    /\ \E ds \in DcapStats :
           /\ Commit(dnsflow_stats_cb(W, ds, ds.sample_rate), "stats")
           /\ call' = ds
    /\ n_stats' = n_stats + 1
    /\ UNCHANGED <<now, pcap_record_dst_port, jmirror_dst_port, pc, n_push, push_at, waited,
                   traffic, ret, udp_num_dsts, failing, exit_code, group>>

\* a second of wall-clock time passes
Clock ==
    /\ pc = "run"
    /\ now < Epoch + MaxTime
    /\ now' = now + 1
    /\ op' = "clock"
    /\ out' = <<>>
    /\ logs' = <<>>
    /\ call' = <<>>
    /\ UNCHANGED <<db_len, hdr, sets, sequence_number, last_send,
                   pcap_record_dst_port, jmirror_dst_port, heap_smashed, pc,
                   n_appended, dropped, sent_ids, sent_seqs, n_sent, n_push, push_at, waited,
                   n_stats, guard_seq, traffic, ret, udp_num_dsts, failing,
                   exit_code, group>>
    /\ sends' = <<>>

\* after a write past the allocation the process may die at any time
Crash ==
    /\ pc = "run"
    /\ heap_smashed
    /\ pc' = "crashed"
    /\ op' = "crash"
    /\ out' = <<>>
    /\ logs' = <<>>
    /\ call' = <<>>
    /\ UNCHANGED <<now, db_len, hdr, sets, sequence_number, last_send,
                   pcap_record_dst_port, jmirror_dst_port, heap_smashed,
                   n_appended, dropped, sent_ids, sent_seqs, n_sent, n_push, push_at, waited,
                   n_stats, guard_seq, traffic, ret, udp_num_dsts, failing,
                   exit_code, group>>
    /\ sends' = <<>>

\* the push timer fires no sooner than push_tv.tv_sec after it was armed
\* (evtimer_add with push_tv plus up to a second of jitter)
PushTimer ==
    /\ now - push_at >= PushTvSec
    /\ PushCb

Next == DcapCb \/ PushCb \/ StatsCb \/ Clock \/ Crash

Spec == Init /\ [][Next]_vars

\* a run whose traffic never fills a buffer: no write past the allocation
InitGate == InitWith(TrafficGate, <<0, 0>>, <<>>) /\ Solo
NextGate == DcapCb \/ PushCb \/ StatsCb \/ Clock
SpecGate == InitGate /\ [][NextGate]_vars

(***************************************************************************)
(* dnsflow_dns_extract as a function of the decoded message                *)
(***************************************************************************)
\* the RR at position i of an answer section, by kind: a CNAME, an A, an
\* AAAA, a CNAME with empty rdata
RRof(kind, i) ==
    CASE kind = "cname" -> CnameRR(i, 10)
      [] kind = "a" -> ARR(i)
      [] kind = "aaaa" -> AaaaRR(i)
      [] OTHER -> [type |-> LDNS_RR_TYPE_CNAME, rdfs |-> <<>>]

SmallAnswers ==
    UNION { { [i \in 1..n |-> RRof(ks[i], i)] :
                ks \in [1..n -> {"cname", "a", "aaaa", "empty"}] } :
            n \in 0..MaxAns }

\* answer sections around the 255 names and 255 addresses a set can hold
BulkAnswers ==
    { Bulk(nc, LDNS_MAX_DOMAINLEN, na) :
          nc \in (DNSFLOW_MAX_PARSE - 2)..DNSFLOW_MAX_PARSE,
          na \in (DNSFLOW_MAX_PARSE - 1)..(DNSFLOW_MAX_PARSE + 1) }

ExtractInputs ==
    { Response(q, a) : q \in {1, 13, LDNS_MAX_DOMAINLEN}, a \in SmallAnswers }
    \cup { Response(LDNS_MAX_DOMAINLEN, a) : a \in BulkAnswers }

InitExtract == (\E lp \in ExtractInputs : InitWith({}, <<0, 0>>, lp)) /\ Solo

Extract ==
    /\ op = "main"
    /\ ret' = dnsflow_dns_extract(call)
    /\ op' = "extract"
    /\ UNCHANGED <<now, db_len, hdr, sets, sequence_number, last_send,
                   pcap_record_dst_port, jmirror_dst_port, heap_smashed, pc,
                   out, logs, n_appended, dropped, sent_ids, sent_seqs,
                   n_sent, n_push, push_at, waited, n_stats, guard_seq, traffic, call,
                   udp_num_dsts, failing, sends, exit_code, group>>

SpecExtract == InitExtract /\ [][Extract]_vars

\* responses whose names are as long as a name may be, or one byte longer:
\* the sizes ldns_rdf_size may return around LDNS_MAX_DOMAINLEN
NameSizes == {10, LDNS_MAX_DOMAINLEN, LDNS_MAX_DOMAINLEN + 1}

LongAnswers ==
    UNION { { [i \in 1..n |->
                 IF ks[i] = 0 THEN ARR(i)
                 ELSE IF ks[i] = 1 THEN AaaaRR(i)
                 ELSE CnameRR(i, ks[i])] :
                ks \in [1..n -> {0, 1} \cup NameSizes] } :
            n \in 0..MaxAns }

LongInputs == { Response(q, a) : q \in NameSizes, a \in LongAnswers }

InitLong == (\E lp \in LongInputs : InitWith({}, <<0, 0>>, lp)) /\ Solo

SpecLong == InitLong /\ [][Extract]_vars

(***************************************************************************)
(* The shard predicate build_pcap_filter writes, as the filter machine     *)
(* evaluates it on the client address c of a packet                        *)
(***************************************************************************)
\* "ip[16:4] - ip[16:4] / num_procs * num_procs = proc_i - 1"
ShardValue(c, num_procs) == Sub32(c, Mul32(Div32(c, num_procs), num_procs))

ShardPredicate_mut_index(c, num_procs, proc_i) ==
    ShardValue(c, num_procs) = U32Of(0, proc_i)

ShardPredicate(c, num_procs, proc_i) ==
    ShardValue(c, num_procs) = U32Of(0, proc_i - 1)

\* the proc_i values mproc_fork hands out: the parent 1, the children 2..n
ProcIds(num_procs) == 1..num_procs

ShardAddrs ==
    { <<hi, lo>> : hi \in {0, 2560, 32767, 32768, 65535},
                   lo \in {0, 1, 7, 63, 64, 65535} }

ShardInputs ==
    { [c |-> c, n |-> n] :
          c \in ShardAddrs, n \in (2..MaxProcs) \cup {MAX_MPROC_CHILDREN} }

InitShard == (\E in \in ShardInputs : InitWith({}, <<0, 0>>, in)) /\ Solo

\* every worker's filter is applied to the same packet
Shard ==
    /\ op = "main"
    /\ ret' = [value |-> ShardValue(call.c, call.n),
               accept |-> { i \in ProcIds(call.n) :
                              ShardPredicate(call.c, call.n, i) }]
    /\ op' = "shard"
    /\ UNCHANGED <<now, db_len, hdr, sets, sequence_number, last_send,
                   pcap_record_dst_port, jmirror_dst_port, heap_smashed, pc,
                   out, logs, n_appended, dropped, sent_ids, sent_seqs,
                   n_sent, n_push, push_at, waited, n_stats, guard_seq, traffic, call,
                   udp_num_dsts, failing, sends, exit_code, group>>

SpecShard == InitShard /\ [][Shard]_vars

(***************************************************************************)
(* The end of a worker: signal_cb and clean_exit as they act on the        *)
(* buffers, and the tail of main in file mode                              *)
(***************************************************************************)
\* clean_exit: log, print the capture stats, close the dump file, exit(0)
clean_exit_buf(w) ==
    [w EXCEPT !.logs = Append(@, "Shutting down."),
              !.pc = "exited", !.exit_code = 0]

\* the pending buffer is flushed before the exit
signal_cb_buf_mut_flush(w, signal, t) ==
    clean_exit_buf(dnsflow_pkt_send_data(
        [w EXCEPT !.logs = Append(@, "received exit signal")], t))

\* signal_cb for SIGINT and SIGTERM
signal_cb_buf(w, signal, t) ==
    clean_exit_buf([w EXCEPT !.logs = Append(@, "received exit signal")])

\* the last buffer stays unsent
main_file_end_mut_noflush(w, t) ==
    [w EXCEPT !.pc = "exited", !.exit_code = 0]

\* main after dcap_loop_all: send the last packet, print stats, return 0
main_file_end(w, t) ==
    [dnsflow_pkt_send_data(w, t) EXCEPT !.pc = "exited", !.exit_code = 0]

\* a callback after which the process may have exited
CommitExit(w, name) ==
    /\ Commit(w, name)
    /\ pc' = w.pc
    /\ exit_code' = w.exit_code

\* SIGINT or SIGTERM is dispatched by the event loop
SignalExit ==
    /\ pc = "run"
    /\ \E sig \in {"SIGINT", "SIGTERM"} :
           /\ CommitExit(signal_cb_buf(W, sig, now), "signal")
           /\ call' = sig
    /\ UNCHANGED <<now, pcap_record_dst_port, jmirror_dst_port, n_push, push_at, waited,
                   n_stats, traffic, ret, udp_num_dsts, failing, group>>

\* the capture file is at its end
Eof ==
    /\ pc = "run"
    /\ CommitExit(main_file_end(W, now), "eof")
    /\ call' = <<>>
    /\ UNCHANGED <<now, pcap_record_dst_port, jmirror_dst_port, n_push, push_at, waited,
                   n_stats, traffic, ret, udp_num_dsts, failing, group>>

\* the sets of destinations that refuse a datagram, of n destinations
FailSets(n) == {{}, {1}, {n}, 1..n}

\* the network changes which destinations refuse
Net ==
    /\ pc = "run"
    /\ op # "net"
    /\ \E f \in FailSets(udp_num_dsts) : f # failing /\ failing' = f
    /\ op' = "net"
    /\ out' = <<>>
    /\ sends' = <<>>
    /\ logs' = <<>>
    /\ call' = <<>>
    /\ UNCHANGED <<now, db_len, hdr, sets, sequence_number, last_send,
                   pcap_record_dst_port, jmirror_dst_port, heap_smashed, pc,
                   n_appended, dropped, sent_ids, sent_seqs, n_sent, n_push, push_at, waited,
                   n_stats, guard_seq, traffic, ret, udp_num_dsts, exit_code,
                   group>>

TrafficLive ==
    { Whole(Bare(c, m)) : c \in ClientIps, m \in {SingleA, FourLong} }

\* a live worker with several destinations, until a signal ends it
InitLive ==
    /\ InitWith(TrafficLive, <<0, 0>>, <<>>)
    /\ NoEncap
    /\ udp_num_dsts \in (1..MaxDsts) \cup {DNSFLOW_UDP_MAX_DSTS}
    /\ failing = {}
    /\ group = <<>>

NextLive == DcapCb \/ PushCb \/ StatsCb \/ Clock \/ Net \/ SignalExit

SpecLive == InitLive /\ [][NextLive]_vars

\* a live worker whose push timer keeps its interval
InitPush == InitWith(TrafficLive, <<0, 0>>, <<>>) /\ Solo

NextPush == DcapCb \/ PushTimer \/ StatsCb \/ Clock

SpecPush == InitPush /\ [][NextPush]_vars

\* a worker reading a capture file (-r): dcap_loop_all makes the capture
\* callbacks, the event loop never runs
InitFile == InitWith(TrafficMain, <<0, 0>>, <<>>) /\ Solo

NextFile == DcapCb \/ Clock \/ Crash \/ Eof

SpecFile == InitFile /\ [][NextFile]_vars

(***************************************************************************)
(* dnsflow_dcap_cb on a response captured bare and on the same packet      *)
(* inside a carrier                                                        *)
(***************************************************************************)
\* the payload of a carrier read as a DNS message
NotDns == [SingleA EXCEPT !.parse_ok = FALSE]

\* the IPv4/UDP packet that carries inner behind a pcap record header and an
\* Ethernet header ("pcap") or behind a J-Mirror header, sent to port
Wrap(kind, port, inner) ==
    LET off == IF kind = "pcap" THEN SizeofPcapSfPkthdr + SizeofEtherHeader
               ELSE SizeofJmirrorHdr
        ulen == SizeofUdphdr + off + inner.ip_len
    IN  [ip_v |-> IPVERSION, ip_hl |-> 5, ip_len |-> SizeofIp + ulen,
         ip_p |-> IPPROTO_UDP, ip_dst |-> 167772260,
         uh_ulen |-> ulen, uh_dport |-> port,
         data |-> [dns |-> NotDns, enc_off |-> off, enc_ip |-> <<inner>>]]

EncapPorts == {0, 30030, 30031}

\* a response, its client, the carrier, and the -X and -J ports, of which
\* the one of the carrier is configured
EncapInputs ==
    { [m |-> m, c |-> c, kind |-> k, x |-> x, j |-> j] :
        m \in {SingleA, CnameChain, FourLong, [SingleA EXCEPT !.rcode = 2]},
        c \in {167772167, 167772417},
        k \in {"pcap", "jmirror"},
        x \in EncapPorts, j \in EncapPorts }
    \ { i \in [m : Messages, c : {167772167, 167772417},
               kind : {"pcap", "jmirror"}, x : EncapPorts, j : EncapPorts] :
          (IF i.kind = "pcap" THEN i.x ELSE i.j) = 0 }

InitEncap ==
    /\ \E i \in EncapInputs :
           /\ InitWith({}, <<0, 0>>, i)
           /\ pcap_record_dst_port = i.x
           /\ jmirror_dst_port = i.j
    /\ udp_num_dsts = 1
    /\ failing = {}
    /\ group = <<>>

\* the capture callback on the bare packet, and on the carrier, each from
\* the empty buffer
Decap ==
    /\ op = "main"
    /\ LET bare == Bare(call.c, call.m)
           port == IF call.kind = "pcap" THEN call.x ELSE call.j
       IN  ret' = [bare |-> dnsflow_dcap_cb(W, bare.ip_len, bare, Cfg, now),
                   wrapped |-> dnsflow_dcap_cb(
                                   W, Wrap(call.kind, port, bare).ip_len,
                                   Wrap(call.kind, port, bare), Cfg, now)]
    /\ op' = "decap"
    /\ UNCHANGED <<now, db_len, hdr, sets, sequence_number, last_send,
                   pcap_record_dst_port, jmirror_dst_port, heap_smashed, pc,
                   out, logs, n_appended, dropped, sent_ids, sent_seqs,
                   n_sent, n_push, push_at, waited, n_stats, guard_seq, traffic, call,
                   udp_num_dsts, failing, sends, exit_code, group>>

SpecEncap == InitEncap /\ [][Decap]_vars

(***************************************************************************)
(* ip4_check as a function of the captured length and of the header fields *)
(* it reads                                                                *)
(***************************************************************************)
\* captured lengths and total lengths around the sizes of the headers, every
\* value of the 4-bit header length, version 4 and two others
Ip4Inputs ==
    { [pkt_len |-> l, ip |-> [ip_v |-> v, ip_hl |-> h, ip_len |-> t]] :
        l \in {0, 19, 20, 24, 28, 60, 1500},
        v \in {0, 4, 6},
        h \in 0..15,
        t \in {0, 16, 19, 20, 24, 28, 60, 1500, U16 - 1} }

InitIp4 == (\E i \in Ip4Inputs : InitWith({}, <<0, 0>>, i)) /\ Solo

Ip4Check ==
    /\ op = "main"
    /\ ret' = [accepted |-> ip4_check(call.pkt_len, call.ip)]
    /\ op' = "ip4"
    /\ UNCHANGED <<now, db_len, hdr, sets, sequence_number, last_send,
                   pcap_record_dst_port, jmirror_dst_port, heap_smashed, pc,
                   out, logs, n_appended, dropped, sent_ids, sent_seqs,
                   n_sent, n_push, push_at, waited, n_stats, guard_seq, traffic, call,
                   udp_num_dsts, failing, sends, exit_code, group>>

SpecIp4 == InitIp4 /\ [][Ip4Check]_vars

(***************************************************************************)
(* dnsflow_dcap_cb up to its call of dnsflow_dns_check: which bytes of the *)
(* captured packet are handed to the decoder, and whose address is kept    *)
(***************************************************************************)
\* the arguments of dnsflow_dns_check(ntohs(udphdr->uh_ulen), udp_data):
\* off is udp_data - ip_pkt and len the length passed; called is FALSE when
\* the callback returns before the call; ip_encap_offset and client_ip
\* (ip->ip_dst) are the locals at the call
DnsCheckArgs(pkt_len, ip_pkt, cfg) ==
    LET none == [called |-> FALSE, off |-> 0, len |-> 0,
                 ip_encap_offset |-> 0, client_ip |-> 0]
    IN  IF ~ip_udp_check(pkt_len, ip_pkt) THEN none
        ELSE
        LET udp_data == ip_pkt.ip_hl * 4 + SizeofUdphdr
            remaining == pkt_len - udp_data
            ip_encap_offset == EncapOffset(ip_pkt.uh_dport, cfg)
            inner == IpAt(ip_pkt.data, ip_encap_offset)
        IN  IF ip_encap_offset # 0
            THEN IF ~ip_encap_check(remaining, ip_pkt.data, ip_encap_offset)
                 THEN [none EXCEPT !.ip_encap_offset = ip_encap_offset]
                 ELSE [called |-> TRUE,
                       off |-> udp_data + ip_encap_offset
                               + inner.ip_hl * 4 + SizeofUdphdr,
                       len |-> inner.uh_ulen,
                       ip_encap_offset |-> ip_encap_offset,
                       client_ip |-> inner.ip_dst]
            ELSE [called |-> TRUE, off |-> udp_data, len |-> ip_pkt.uh_ulen,
                  ip_encap_offset |-> 0, client_ip |-> ip_pkt.ip_dst]

\* a DNS message in an IPv4/UDP packet with a header of hl words, sent to
\* UDP port dport
BareTo(dst, lp, hl, dport) ==
    [Bare(dst, lp) EXCEPT !.ip_hl = hl,
                          !.ip_len = hl * 4 + SizeofUdphdr + WireLen(lp),
                          !.uh_dport = dport]

\* destination ports of captured packets
DstPorts == {0, 1, 53, 30030, 40000, U16 - 1}

\* a captured packet with what is true of it: where the UDP payload of its
\* innermost frame lies (payload_off, payload_len), the addresses of the
\* outer and of the innermost frame, and the ports configured.  The capture
\* holds the packet alone, or the packet and trail bytes after it.
ArgsInputs ==
    LET plain == { [ip_pkt |-> BareTo(167772167, m, hl, dp),
                    payload_off |-> hl * 4 + SizeofUdphdr,
                    payload_len |-> WireLen(m),
                    outer_off |-> hl * 4 + SizeofUdphdr,
                    outer_dst |-> 167772167, inner_dst |-> 167772167,
                    kind |-> "bare"] :
                     m \in {SingleA, CnameChain}, hl \in {5, 6, 15},
                     dp \in DstPorts }
        carried == { [ip_pkt |-> Wrap(k, dp, BareTo(167772167, m, hl, 40000)),
                      payload_off |-> SizeofIp + SizeofUdphdr
                                      + (IF k = "pcap"
                                         THEN SizeofPcapSfPkthdr + SizeofEtherHeader
                                         ELSE SizeofJmirrorHdr)
                                      + hl * 4 + SizeofUdphdr,
                      payload_len |-> WireLen(m),
                      outer_off |-> SizeofIp + SizeofUdphdr,
                      outer_dst |-> 167772260, inner_dst |-> 167772167,
                      kind |-> k] :
                       m \in {SingleA}, hl \in {5, 6}, k \in {"pcap", "jmirror"},
                       dp \in {0, 30030, 30031} }
    IN  { [f |-> f, trail |-> t, x |-> x, j |-> j] :
            f \in plain \cup carried, t \in {0, 4, 8},
            x \in {0, 30030}, j \in {0, 30031} }

InitArgs ==
    /\ \E i \in ArgsInputs :
           /\ InitWith({}, <<0, 0>>, i)
           /\ pcap_record_dst_port = i.x
           /\ jmirror_dst_port = i.j
    /\ udp_num_dsts = 1
    /\ failing = {}
    /\ group = <<>>

DecoderCall ==
    /\ op = "main"
    /\ ret' = DnsCheckArgs(call.f.ip_pkt.ip_len + call.trail, call.f.ip_pkt, Cfg)
    /\ op' = "args"
    /\ UNCHANGED <<now, db_len, hdr, sets, sequence_number, last_send,
                   pcap_record_dst_port, jmirror_dst_port, heap_smashed, pc,
                   out, logs, n_appended, dropped, sent_ids, sent_seqs,
                   n_sent, n_push, push_at, waited, n_stats, guard_seq, traffic, call,
                   udp_num_dsts, failing, sends, exit_code, group>>

SpecArgs == InitArgs /\ [][DecoderCall]_vars

(***************************************************************************)
(* The processes of an auto-fork run (-M n): mproc_fork, the signal        *)
(* handlers, check_parent_setup, clean_exit.  group is the record          *)
(*   linux   the build: PR_SET_PDEATHSIG, or the check_parent_cb timer     *)
(*   n       auto_n_procs                                                  *)
(*   next    proc_i of the parent's loop in mproc_fork                     *)
(*   ph      per proc_i: "none" not forked, "fork" in mproc_fork, "init"   *)
(*           between mproc_fork and signal_add (signals at their default   *)
(*           disposition), "ready" handlers installed, "loop" in           *)
(*           event_dispatch, "gone" terminated                             *)
(*   nkids, kids   n_mproc_children and mproc_children of each process     *)
(*   pend    signals caught by libevent and not yet dispatched             *)
(*   watch   check_parent_setup has run                                    *)
(*   code    exit status, -1 while the process lives                       *)
(*   reaped  pids the parent has waited for                                *)
(*   killed  history: the (proc_i, pid) pairs of the kill calls made       *)
(*   stray   history: pids signalled when already reaped                   *)
(*   ids     history: (pid, proc_i) for every return of mproc_fork         *)
(***************************************************************************)
Pid(i) == 100 + i
ProcOf(pid) == pid - 100

Procs(g) == 1..g.n
Alive(g, i) == g.ph[i] \notin {"none", "gone"}
Catches(g, i) == g.ph[i] \in {"ready", "loop"}

Group0(linux, n) ==
    [linux |-> linux, n |-> n, next |-> 2,
     ph |-> [i \in 1..n |-> IF i = 1 THEN "fork" ELSE "none"],
     nkids |-> [i \in 1..n |-> 0],
     kids |-> [i \in 1..n |-> <<>>],
     pend |-> [i \in 1..n |-> {}],
     watch |-> [i \in 1..n |-> FALSE],
     code |-> [i \in 1..n |-> -1],
     reaped |-> {}, killed |-> {}, stray |-> {}, ids |-> <<>>]

\* process i terminates with status code.  The kernel raises SIGCHLD for the
\* parent (discarded unless a handler is installed) when a child goes, and
\* the parent-death signal for the children that asked for it
Exit(g, i, code) ==
    LET g1 == [g EXCEPT !.ph[i] = "gone", !.code[i] = code, !.pend[i] = {}]
    IN  IF i = 1
        THEN [g1 EXCEPT !.pend =
                 [c \in Procs(g) |->
                     IF c # 1 /\ Alive(g1, c) /\ g1.linux /\ g1.watch[c]
                     THEN g1.pend[c] \cup {"SIGTERM"} ELSE g1.pend[c]]]
        ELSE IF Catches(g1, 1)
        THEN [g1 EXCEPT !.pend[1] = @ \cup {"SIGCHLD"}]
        ELSE g1

\* a signal is generated for the living process i
Raise(g, i, sig) ==
    IF Catches(g, i) THEN [g EXCEPT !.pend[i] = @ \cup {sig}]
    ELSE IF sig = "SIGCHLD" THEN g
    ELSE Exit(g, i, 143)

\* kill(pid, sig) called by process from
kill(g, from, pid, sig) ==
    LET g1 == [g EXCEPT !.killed = @ \cup {<<from, pid>>}]
    IN  IF pid \in g.reaped THEN [g1 EXCEPT !.stray = @ \cup {pid}]
        ELSE IF Alive(g1, ProcOf(pid)) THEN Raise(g1, ProcOf(pid), sig)
        ELSE g1

RECURSIVE KillChildren(_, _, _)
KillChildren(g, i, k) ==
    IF k > g.nkids[i] THEN g
    ELSE KillChildren(kill(g, i, g.kids[i][k], "SIGTERM"), i, k + 1)

clean_exit(g, i) ==
    LET g1 == IF g.nkids[i] # 0 THEN KillChildren(g, i, 1) ELSE g
    IN  Exit(g1, i, 0)

\* the child keeps the count it inherited from the parent
mproc_fork_child_mut_inherit(g, c) ==
    [g EXCEPT !.ph[c] = "init", !.kids[c] = g.kids[1], !.nkids[c] = g.nkids[1],
              !.ids = Append(@, <<Pid(c), g.next>>)]

\* the child side of fork() in mproc_fork: returns proc_i = c
mproc_fork_child(g, c) ==
    [g EXCEPT !.ph[c] = "init", !.kids[c] = g.kids[1], !.nkids[c] = 0,
              !.ids = Append(@, <<Pid(c), g.next>>)]

\* the parent side
mproc_fork_parent(g, c) ==
    [g EXCEPT !.kids[1] = Append(@, Pid(c)), !.nkids[1] = @ + 1, !.next = c + 1]

signal_cb(g, i, sig) ==
    IF sig \in {"SIGINT", "SIGTERM"} THEN clean_exit(g, i)
    ELSE \* SIGCHLD: wait() returns a terminated child
         LET zombies == { c \in Procs(g) : c # i /\ g.ph[c] = "gone"
                                            /\ Pid(c) \in Range(g.kids[i])
                                            /\ Pid(c) \notin g.reaped }
             z == CHOOSE c \in zombies : \A d \in zombies : c <= d
         IN  clean_exit([g EXCEPT !.reaped = @ \cup {Pid(z)}], i)

check_parent_cb(g, i) ==
    IF g.ph[1] = "gone" THEN clean_exit(g, i) ELSE g

check_parent_setup(g, i) ==
    [g EXCEPT !.watch[i] = TRUE]

worker_vars ==
    <<now, db_len, hdr, sets, sequence_number, last_send,
      pcap_record_dst_port, jmirror_dst_port, heap_smashed, pc, op, out,
      logs, n_appended, dropped, sent_ids, sent_seqs, n_sent, n_push, push_at, waited,
      n_stats, guard_seq, traffic, call, ret, udp_num_dsts, failing, sends,
      exit_code>>

InitGroup ==
    /\ InitWith({}, <<0, 0>>, <<>>)
    /\ NoEncap
    /\ udp_num_dsts = 1
    /\ failing = {}
    /\ \E linux \in BOOLEAN, n \in 1..MaxFork : group = Group0(linux, n)

\* fork() succeeds in mproc_fork
Fork ==
    /\ group.ph[1] = "fork"
    /\ group.next <= group.n
    /\ group' = mproc_fork_parent(mproc_fork_child(group, group.next), group.next)
    /\ UNCHANGED worker_vars

\* fork() fails: errx(1, "fork error")
ForkFail ==
    /\ group.ph[1] = "fork"
    /\ group.next <= group.n
    /\ group' = Exit(group, 1, 1)
    /\ UNCHANGED worker_vars

\* the parent leaves mproc_fork with proc_i 1
ForkDone ==
    /\ group.ph[1] = "fork"
    /\ group.next > group.n
    /\ group' = [group EXCEPT !.ph[1] = "init", !.ids = Append(@, <<Pid(1), 1>>)]
    /\ UNCHANGED worker_vars

\* main up to the three signal_add calls
Setup(i) ==
    /\ group.ph[i] = "init"
    /\ group' = [group EXCEPT !.ph[i] = "ready"]
    /\ UNCHANGED worker_vars

\* main fails before them: errx(1, "dcap_init failed")
SetupFail(i) ==
    /\ group.ph[i] = "init"
    /\ group' = Exit(group, i, 1)
    /\ UNCHANGED worker_vars

\* main from check_parent_setup (children only) to event_dispatch
EnterLoop(i) ==
    /\ group.ph[i] = "ready"
    /\ group' = [(IF i # 1 THEN check_parent_setup(group, i) ELSE group)
                    EXCEPT !.ph[i] = "loop"]
    /\ UNCHANGED worker_vars

\* the event loop dispatches a caught signal
SignalCb(i) ==
    /\ group.ph[i] = "loop"
    /\ \E sig \in group.pend[i] :
           group' = signal_cb([group EXCEPT !.pend[i] = @ \ {sig}], i, sig)
    /\ UNCHANGED worker_vars

\* the one-second timer of a build without PR_SET_PDEATHSIG
CheckParentCb(i) ==
    /\ ~group.linux
    /\ i # 1
    /\ group.ph[i] = "loop"
    /\ group.watch[i]
    /\ group.ph[1] = "gone"
    /\ group' = check_parent_cb(group, i)
    /\ UNCHANGED worker_vars

\* somebody sends SIGTERM to the process
Term(i) ==
    /\ Alive(group, i)
    /\ "SIGTERM" \notin group.pend[i]
    /\ group' = Raise(group, i, "SIGTERM")
    /\ UNCHANGED worker_vars

\* the process is killed outright (SIGKILL, a crash)
Die(i) ==
    /\ Alive(group, i)
    /\ group' = Exit(group, i, 137)
    /\ UNCHANGED worker_vars

\* the steps the processes take by themselves
Step(i) == Setup(i) \/ EnterLoop(i) \/ SignalCb(i) \/ CheckParentCb(i)

NextGroup ==
    \/ Fork \/ ForkFail \/ ForkDone
    \/ \E i \in Procs(group) : Setup(i)
    \/ \E i \in Procs(group) : EnterLoop(i)
    \/ \E i \in Procs(group) : SignalCb(i)
    \/ \E i \in Procs(group) : CheckParentCb(i)
    \/ \E i \in Procs(group) : SetupFail(i)
    \/ \E i \in Procs(group) : Term(i)
    \/ \E i \in Procs(group) : Die(i)

\* every living process keeps running; nothing forces a failure
SpecGroup ==
    /\ InitGroup
    /\ [][NextGroup]_vars
    /\ WF_vars(Fork \/ ForkDone)
    /\ \A i \in 1..(MaxFork + 1) : WF_vars(i \in Procs(group) /\ Step(i))

(***************************************************************************)
(* What the specification says of a response, stated without the code      *)
(***************************************************************************)
\* the DNS message a frame carries to the decoder
DnsOf(f) ==
    IF f.ip_pkt.data.enc_ip # <<>> THEN f.ip_pkt.data.enc_ip[1].data.dns
    ELSE f.ip_pkt.data.dns

\* positions <<i, j>> of the rdata fields of the answer RRs of one type
RdataPos(lp, type) ==
    UNION { { <<i, j>> : j \in 1..Len(lp.answers[i].rdfs) } :
            i \in { k \in 1..Len(lp.answers) : lp.answers[k].type = type } }

PosBefore(p, q) == p[1] < q[1] \/ (p[1] = q[1] /\ p[2] < q[2])

RawNameCount(lp) == 1 + Cardinality(RdataPos(lp, LDNS_RR_TYPE_CNAME))
RawIpCount(lp) == Cardinality(RdataPos(lp, LDNS_RR_TYPE_A))

\* the counts and the bytes of the first 255 names of every message of the
\* model, computed once
RawCounts ==
    [m \in Messages |->
        [names |-> RawNameCount(m), ips |-> RawIpCount(m),
         name_bytes |-> SumLens(Extracted[m].names, 1,
                                MIN(RawNameCount(m), 255))]]

RoundUp4(x) == ((x + 3) \div 4) * 4

\* bytes of one set: header, name region, addresses
SetBytes(s) == SizeofSetHdr + s.names_len + SizeofInAddr * s.ips_count

RECURSIVE BodyBytes(_)
BodyBytes(ss) == IF ss = <<>> THEN 0 ELSE SetBytes(ss[1]) + BodyBytes(Tail(ss))

FailsGate(lp) ==
    \/ lp.qr # 1
    \/ lp.rd # 1
    \/ lp.ra # 1
    \/ lp.rcode # LDNS_RCODE_NOERROR
    \/ lp.qdcount # 1
    \/ lp.qtype # LDNS_RR_TYPE_A

GuardLogged(ls) == "Pkt create error" \in Range(ls)

(***************************************************************************)
(* C1: the k-th emitted buffer carries sequence number k, each one more    *)
(* than the one before, strictly increasing.                               *)
(***************************************************************************)
\* C1 as stated: the last emitted buffer carries its ordinal n_sent, and the
\* numbers of the emitted buffers increase strictly in steps of one.
C1_SeqIsOrdinal ==
    /\ out # <<>> => out[Len(out)].hdr.sequence_number = n_sent
    /\ \A i \in 2..Len(sent_seqs) :
           /\ Less32(sent_seqs[i - 1], sent_seqs[i])
           /\ sent_seqs[i] = Inc32(sent_seqs[i - 1])

\* C1 amended: a callback emits at most one buffer, the k-th emitted buffer
\* carries k modulo 2^32, and each emitted number is the one before plus one
\* modulo 2^32 (no gap, no repeat; after 4294967295 comes 0).
C1_SeqModulo ==
    /\ Len(out) <= 1
    /\ out # <<>> => out[1].hdr.sequence_number = U32Of(n_sent[1], n_sent[2])
    /\ \A i \in 2..Len(sent_seqs) : sent_seqs[i] = Inc32(sent_seqs[i - 1])

\* a stats buffer, a time flush and a size flush, across the wrap
C1_Witness ==
    /\ Len(sent_seqs) >= 3
    /\ n_stats = 1
    /\ n_push = 1
    /\ sent_ids # <<>>
    /\ sent_seqs[Len(sent_seqs)] = <<0, 1>>

(***************************************************************************)
(* C2: every emitted buffer has version 2 and 1 <= sets_count <= 255.      *)
(***************************************************************************)
\* C2: each buffer handed to dnsflow_pkt_send by the last callback has
\* version == 2 and a sets_count in 1..255.
C2_EmittedHeader ==
    \A i \in 1..Len(out) :
        /\ out[i].hdr.version = 2
        /\ out[i].hdr.sets_count >= 1
        /\ out[i].hdr.sets_count <= 255

\* a time flush of a buffer begun after an overflow discard
C2_Witness ==
    /\ op = "push"
    /\ out # <<>>
    /\ out[1].db_type = "DNSFLOW_DATA"
    /\ dropped # {}

(***************************************************************************)
(* C3: after an append that does not hit the overflow guard,               *)
(* (len < 1200 and sets_count < 255) or len == 0.                          *)
(***************************************************************************)
\* C3: a step in which dnsflow_pkt_build appended a set without logging the
\* overflow ends with (db_len < 1200 and sets_count < 255) or db_len = 0.
C3_SizeTrigger ==
    [][ (n_appended' # n_appended /\ ~GuardLogged(logs'))
        => \/ (db_len' < 1200 /\ hdr'.sets_count < 255)
           \/ db_len' = 0 ]_vars

\* the second append crossed 1200 bytes and was flushed within the append
C3_Witness ==
    /\ op = "dcap"
    /\ db_len = 0
    /\ out # <<>>
    /\ Len(out[1].body) = 2
    /\ out[1].db_len >= 1200
    /\ out[1].db_len < DNSFLOW_PKT_MAX_SIZE

(***************************************************************************)
(* C4: a push-timer firing emits a data buffer exactly when len > 0 and    *)
(* now - last_flush_time >= 1; with len == 0 it changes nothing.           *)
(***************************************************************************)
\* C4: in a step of the push timer, a buffer is emitted iff db_len > 0 and
\* now - last_send >= 1, it is the pending data buffer, and when db_len = 0
\* nothing is emitted and sequence_number and last_send keep their values.
C4_PushTick ==
    [][ op' = "push"
        => /\ (out' # <<>>) <=> (db_len > 0 /\ now - last_send >= 1)
           /\ out' # <<>> => /\ Len(out') = 1
                             /\ out'[1].db_type = "DNSFLOW_DATA"
                             /\ out'[1].body = sets
                             /\ db_len' = 0
           /\ db_len = 0 => /\ out' = <<>>
                            /\ sequence_number' = sequence_number
                            /\ last_send' = last_send ]_vars

\* one response, a time flush, a second later a tick that emits nothing
C4_Witness ==
    /\ op = "push"
    /\ n_push = 2
    /\ n_appended = 1
    /\ sent_ids = <<1>>
    /\ out = <<>>
    /\ now - last_send >= 1

(***************************************************************************)
(* C5: every appended set is emitted exactly once, in observation order,   *)
(* unless the overflow guard discarded it or it is still pending.          *)
(***************************************************************************)
\* C5: the sets of the emitted data buffers followed by the pending ones
\* are in strictly increasing order of observation (none twice, none out of
\* order), and together with the discarded ones they are all the sets
\* appended.
C5_EverySetOnce ==
    LET all == sent_ids \o IdsOf(sets) IN
    /\ \A i \in 2..Len(all) : all[i - 1] < all[i]
    /\ Range(all) \cap dropped = {}
    /\ Range(all) \cup dropped = 1..n_appended

\* two buffers emitted, and a discard
C5_Witness ==
    /\ dropped # {}
    /\ sent_ids # <<>>
    /\ n_appended = MaxSets

(***************************************************************************)
(* C6: the overflow guard discards the whole buffer, emits nothing and     *)
(* does not advance sequence_number; the next buffer takes that number.    *)
(***************************************************************************)
\* the names of the response do not fit: with the set header written at
\* len (after a fresh header when len = 0) their copy would pass 65535 bytes
WouldExceed(len, lp) ==
    LET start == (IF len = 0 THEN SizeofHdr ELSE len) + SizeofSetHdr
    IN  start + RawCounts[lp].name_bytes > DNSFLOW_PKT_MAX_SIZE

BodiesNow == [i \in 1..Len(out) |-> out[i].body] \o <<sets>>

\* what C7 says of one set s made from the response lp
SetLayout(s, lp) ==
    LET total == SumLens(s.names, 1, Len(s.names)) IN
    /\ s.names_count = MIN(RawCounts[lp].names, 255)
    /\ s.ips_count = MIN(RawCounts[lp].ips, 255)
    /\ Len(s.names) = s.names_count
    /\ Len(s.ips) = s.ips_count
    /\ s.names_len % 4 = 0
    /\ s.names_len = RoundUp4(total)
    /\ s.names_len - total \in 0..3

\* the length of a buffer is its header plus, for each set, the set
\* header, names_len bytes and 4 * ips_count bytes
BufferLayout ==
    /\ db_len # 0 => db_len = SizeofHdr + BodyBytes(sets)
    /\ \A i \in 1..Len(out) :
           out[i].db_type = "DNSFLOW_DATA"
           => out[i].db_len = SizeofHdr + BodyBytes(out[i].body)

\* C7: the set appended by a capture callback, wherever it lies in its
\* buffer, has names_count = min(k, 255) and ips_count = min(m, 255) for the
\* k names and m addresses of the response, a names_len that is a multiple
\* of 4 and the copied name lengths rounded up to it (0 to 3 pad bytes), and
\* exactly 4 * ips_count address bytes follow the name region.
C7_SetLayout ==
    [][ (op' = "dcap" /\ n_appended' # n_appended /\ ~GuardLogged(logs'))
        => /\ \E b \in 1..Len(BodiesNow') : \E i \in 1..Len(BodiesNow'[b]) :
                  /\ BodiesNow'[b][i].id = n_appended'
                  /\ SetLayout(BodiesNow'[b][i], DnsOf(call'))
           /\ BufferLayout' ]_vars

\* a set cut to 255 names and 255 addresses, second in its buffer, 3 pad bytes
C7_Witness ==
    /\ op = "dcap"
    /\ out # <<>>
    /\ Len(out[1].body) = 2
    /\ out[1].body[2].names_count = 255
    /\ out[1].body[2].ips_count = 255
    /\ RawNameCount(DnsOf(call)) > 255
    /\ out[1].body[2].pad = 3

(***************************************************************************)
(* C9: a message that fails the acceptance gate leaves the batcher alone.  *)
(***************************************************************************)
\* C9: a capture callback given a message with QR != 1, RD != 1, RA != 1,
\* RCODE != NOERROR, qdcount != 1 or a question type other than A changes
\* none of db_len, the header, the sets, sequence_number and last_send,
\* appends nothing and emits nothing.
C9_RejectedUnchanged ==
    [][ (op' = "dcap" /\ FailsGate(DnsOf(call')))
        => /\ UNCHANGED <<db_len, hdr, sets, sequence_number, last_send>>
           /\ n_appended' = n_appended
           /\ out' = <<>> ]_vars

\* a SERVFAIL reply arrives while a set is pending
C9_Witness ==
    /\ op = "dcap"
    /\ DnsOf(call).rcode = 2
    /\ db_len > 0
    /\ out = <<>>

(***************************************************************************)
(* C8: the projection of an accepted response.                             *)
(***************************************************************************)
\* the rdata fields of the answer RRs of one type, in answer order, at most
\* max of them
RdataInOrder(lp, type, max) ==
    LET P == RdataPos(lp, type)
        ranked == { <<1 + Cardinality({ q \in P : PosBefore(q, p) }), p>> :
                        p \in P }
        at(k) == (CHOOSE r \in ranked : r[1] = k)[2]
    IN  [k \in 1..MIN(Cardinality(P), max) |->
            lp.answers[at(k)[1]].rdfs[at(k)[2]]]

\* C8: when dnsflow_dns_extract accepts a response, names is the question's
\* owner name followed by the CNAME targets in answer order and ips the A
\* rdata in answer order, other RRs adding nothing, each cut to the first
\* 255.
C8_Projection ==
    (op = "extract" /\ ret.ok) =>
        LET cnames == RdataInOrder(call, LDNS_RR_TYPE_CNAME, 254)
            as == RdataInOrder(call, LDNS_RR_TYPE_A, 255)
        IN  /\ ret.names = <<call.qname>> \o cnames
            /\ ret.ips = [k \in 1..Len(as) |-> as[k].data]
            /\ ret.num_names = Len(ret.names)
            /\ ret.num_ips = Len(ret.ips)

\* a response with more than 255 names and more than 255 addresses
C8_Witness ==
    /\ op = "extract"
    /\ ret.ok
    /\ RawNameCount(call) > 255
    /\ RawIpCount(call) > 255
    /\ Len(ret.names) = 255
    /\ Len(ret.ips) = 255

(***************************************************************************)
(* C10: the shard predicates of n workers partition the client addresses.  *)
(***************************************************************************)
\* c mod n for the address c = c[1] * 2^16 + c[2]
ModN(c, n) == ((c[1] % n) * (U16 % n) + c[2]) % n

\* C10: of the n workers (proc_i in 1..n) exactly one has a true shard
\* predicate on client address c, the one with proc_i - 1 = c mod n, and the
\* 32-bit value of c - (c / n) * n is c mod n.
C10_ShardPartition ==
    op = "shard" =>
        /\ ret.accept = { ModN(call.c, call.n) + 1 }
        /\ ret.value = <<0, ModN(call.c, call.n)>>

\* 64 workers, the largest address: the last worker takes it
C10_Witness ==
    /\ op = "shard"
    /\ call.n = MAX_MPROC_CHILDREN
    /\ call.c = <<65535, 65535>>
    /\ ret.accept = {MAX_MPROC_CHILDREN}

(***************************************************************************)
(* C11: mproc_fork(n) makes n processes numbered 1..n; only the parent     *)
(* has children to signal.                                                 *)
(***************************************************************************)
\* C11: once mproc_fork has returned in the parent, it has returned in
\* exactly n processes with the proc_i values 1..n, each once, the parent
\* with 1; the parent's list holds the n - 1 child pids; every child has
\* n_mproc_children = 0, and no kill is ever made by a child.
C11_ForkWorkers ==
    group # <<>> =>
        /\ \A i \in 2..group.n : group.nkids[i] = 0
        /\ \A k \in group.killed : k[1] = 1
        /\ \A a, b \in 1..Len(group.ids) :
               a # b => /\ group.ids[a][1] # group.ids[b][1]
                        /\ group.ids[a][2] # group.ids[b][2]
        /\ (group.ids # <<>> /\ group.ids[Len(group.ids)][1] = Pid(1)) =>
               /\ Len(group.ids) = group.n
               /\ { group.ids[a][2] : a \in 1..Len(group.ids) } = 1..group.n
               /\ group.ids[Len(group.ids)][2] = 1
               /\ group.nkids[1] = group.n - 1
               /\ group.kids[1] = [k \in 1..(group.n - 1) |-> Pid(k + 1)]

\* of three workers the first child has left through clean_exit, and nobody
\* was signalled
C11_Witness ==
    /\ group # <<>>
    /\ group.n = 3
    /\ Len(group.ids) = 3
    /\ group.code[2] = 0
    /\ Alive(group, 1)
    /\ Alive(group, 3)
    /\ group.killed = {}

(***************************************************************************)
(* C12: no child outlives the parent.                                      *)
(***************************************************************************)
\* C12: once the parent has exited, every child that was forked eventually
\* terminates.
C12_NoOrphan ==
    (group # <<>> /\ group.ph[1] = "gone")
        ~> (\A i \in 2..group.n : ~Alive(group, i))

(***************************************************************************)
(* C13: the death of a child shuts the group down.                         *)
(***************************************************************************)
\* C13: whenever a child has exited while the parent lives, eventually the
\* parent has reaped a child and every process of the group has terminated
\* (or the parent has gone for a reason of its own before reaping).
C13_ChildDeathShutsDown ==
    (group # <<>> /\ Alive(group, 1)
       /\ \E c \in 2..group.n : group.ph[c] = "gone")
        ~> \/ /\ group.reaped # {}
              /\ \A i \in Procs(group) : ~Alive(group, i)
           \/ group.ph[1] = "gone" /\ group.reaped = {}

(***************************************************************************)
(* C14: the shutdown after a child died signals only remaining children.   *)
(***************************************************************************)
\* C14: no SIGTERM is ever sent to the pid of a child the parent has already
\* reaped.
C14_NoSignalToReaped ==
    group # <<>> => group.stray = {}

(***************************************************************************)
(* C15: SIGINT and SIGTERM end the worker without a flush.                 *)
(***************************************************************************)
\* C15: the callback of SIGINT or SIGTERM hands no buffer to the emitter,
\* sends nothing, leaves sequence_number and the pending sets as they are
\* and exits with code 0; after the exit nothing more is emitted.
C15_ExitWithoutFlush ==
    [][ /\ op' = "signal"
           => /\ out' = <<>>
              /\ sends' = <<>>
              /\ sequence_number' = sequence_number
              /\ n_sent' = n_sent
              /\ sent_ids' = sent_ids
              /\ sets' = sets
              /\ pc' = "exited"
              /\ exit_code' = 0
        /\ pc = "exited" => n_sent' = n_sent /\ sent_ids' = sent_ids ]_vars

\* a worker has exited on SIGTERM with two sets pending
C15_Witness ==
    /\ op = "signal"
    /\ call = "SIGTERM"
    /\ pc = "exited"
    /\ exit_code = 0
    /\ Len(sets) = 2
    /\ sent_ids = <<>>

(***************************************************************************)
(* C16: one sendto per buffer and destination, failures change nothing.    *)
(***************************************************************************)
\* the number of sendto calls of the last callback for buffer seq to dst
SendsTo(ss, seq, dst) ==
    Cardinality({ k \in 1..Len(ss) : ss[k].seq = seq /\ ss[k].dst = dst })

StatsBit(flags) == (flags \div DNSFLOW_FLAG_STATS) % 2 = 1

\* C17: a firing of the stats timer emits exactly one buffer, with version
\* 2, sets_count 1, the STATS bit and the five counters; a buffer emitted by
\* any callback has the STATS bit exactly when the stats timer made it, and
\* a data buffer has flags 0.
C17_StatsBuffer ==
    [][ /\ op' = "stats"
           => /\ Len(out') = 1
              /\ out'[1].hdr.version = 2
              /\ out'[1].hdr.sets_count = 1
              /\ StatsBit(out'[1].hdr.flags)
              /\ out'[1].body =
                     <<[pkts_captured |-> call'.captured,
                        pkts_received |-> call'.ps_recv,
                        pkts_dropped |-> call'.ps_drop,
                        pkts_ifdropped |-> call'.ps_ifdrop,
                        sample_rate |-> call'.sample_rate]>>
        /\ \A i \in 1..Len(out') :
               /\ StatsBit(out'[i].hdr.flags) <=> op' = "stats"
               /\ out'[i].db_type = "DNSFLOW_DATA" => out'[i].hdr.flags = 0 ]_vars

\* the stats timer fires while a set is pending, after a data buffer left
C17_Witness ==
    /\ op = "stats"
    /\ Len(out) = 1
    /\ out[1].hdr.flags = DNSFLOW_FLAG_STATS
    /\ db_len > 0
    /\ sent_ids # <<>>

(***************************************************************************)
(* C19: a carrier changes nothing of the set.                              *)
(***************************************************************************)
\* C19 as stated: a response accepted bare gives, inside a pcap-record
\* carrier sent to the -X port or a J-Mirror carrier sent to the -J port,
\* the same set: client_ip, names, ips.
C19_Transparent ==
    (op = "decap" /\ ret.bare.sets # <<>>)
        => ret.wrapped.sets = ret.bare.sets

\* C19 amended: the same, for a J-Mirror carrier when the -J port is not also
\* the -X port.
C19_TransparentDistinct ==
    (op = "decap" /\ ret.bare.sets # <<>>
       /\ (call.kind = "jmirror" => call.j # call.x))
        => /\ ret.wrapped.sets = ret.bare.sets
           /\ ret.wrapped.db_len = ret.bare.db_len
           /\ ret.wrapped.sets[1].client_ip = call.c

\* a CNAME chain inside a J-Mirror carrier, both ports configured
C19_Witness ==
    /\ op = "decap"
    /\ call.kind = "jmirror"
    /\ call.x # 0
    /\ call.j # call.x
    /\ call.m = CnameChain
    /\ Len(ret.wrapped.sets) = 1
    /\ ret.wrapped.sets[1].names_count = 2
    /\ ret.wrapped.sets = ret.bare.sets

(***************************************************************************)
(* C20: db_len never passes DNSFLOW_PKT_MAX_SIZE.                          *)
(***************************************************************************)
\* C20: the pending buffer and every buffer handed to the emitter have
\* db_len <= 65535, and no write goes past the memory of data_buf.
C20_LenWithinCap ==
    /\ db_len <= DNSFLOW_PKT_MAX_SIZE
    /\ \A i \in 1..Len(out) : out[i].db_len <= DNSFLOW_PKT_MAX_SIZE
    /\ ~heap_smashed

(***************************************************************************)
(* C21: the IPv4 check accepts a frame only if version = 4, the header     *)
(* length (ihl * 4) is at least 20 bytes and at most the captured length,  *)
(* the total length is at most the captured length and at least the header *)
(* length; a frame violating any one of them is rejected.                  *)
(***************************************************************************)
C21_AcceptsOnlyValid ==
    (op = "ip4" /\ ret.accepted) =>
        /\ call.ip.ip_v = 4
        /\ call.ip.ip_hl * 4 >= 20
        /\ call.ip.ip_hl * 4 <= call.pkt_len
        /\ call.ip.ip_len <= call.pkt_len
        /\ call.ip.ip_len >= call.ip.ip_hl * 4

(***************************************************************************)
(* C22: for every packet that passes the decapsulator's checks, the byte   *)
(* range handed to the DNS decoder is exactly the UDP payload of the       *)
(* innermost frame (UDP length minus the 8-byte UDP header) and lies       *)
(* inside the captured bytes: offset + length <= captured length.          *)
(***************************************************************************)
\* the packet is what the configuration takes it for: a carrier sent to the
\* port configured for its kind, or a bare packet sent to another port
AsConfigured ==
    LET port == call.f.ip_pkt.uh_dport IN
    CASE call.f.kind = "pcap" -> port = call.x /\ port # 0
      [] call.f.kind = "jmirror" -> port = call.j /\ port # 0 /\ port # call.x
      [] OTHER -> port # call.x /\ port # call.j

C22_PayloadRange ==
    (op = "args" /\ ret.called /\ AsConfigured) =>
        /\ ret.off = call.f.payload_off
        /\ ret.len = call.f.payload_len
        /\ ret.off + ret.len <= call.f.ip_pkt.ip_len + call.trail

(***************************************************************************)
(* C23: when neither -X nor -J was given, no packet is treated as          *)
(* encapsulated, whatever its outer UDP destination port, and the DNS      *)
(* payload and client_ip are taken from the outer frame.                   *)
(***************************************************************************)
C23_NoDecapUnconfigured ==
    (op = "args" /\ NoEncap) =>
        /\ ret.ip_encap_offset = 0
        /\ ret.called
        /\ ret.off = call.f.outer_off
        /\ ret.client_ip = call.f.outer_dst


(***************************************************************************)
(* C24: the decoder rejects the whole response whenever the projection has *)
(* no ips, or any name of the response, the question name or any CNAME     *)
(* target, is longer than 255 bytes.                                       *)
(***************************************************************************)
\* the sizes of the CNAME targets of a response
CnameSizes(lp) ==
    { lp.answers[p[1]].rdfs[p[2]].size : p \in RdataPos(lp, LDNS_RR_TYPE_CNAME) }

C24_RejectsLongNames ==
    (/\ op = "extract"
     /\ \/ RdataPos(call, LDNS_RR_TYPE_A) = {}
        \/ call.qname.size > 255
        \/ \E n \in CnameSizes(call) : n > 255)
    => ~ret.ok


(***************************************************************************)
(* C25: in live mode, with the push timer re-armed at every firing for at  *)
(* least 1 s, a set appended to the buffer is emitted no later than the    *)
(* second push timer firing after the append, unless the worker ends or    *)
(* the overflow guard discards the buffer: a set that one firing left in   *)
(* the buffer and that is still there at the next firing is emitted by it. *)
(***************************************************************************)
C25_SecondFiringEmits ==
    [][ n_push' = n_push + 1 =>
            (waited \cap Range(IdsOf(sets))) \subseteq Range(DataIds(out')) ]_vars

\* a firing has just emitted a set that the firing before it had left in
\* the buffer
C25_Witness ==
    /\ op = "push"
    /\ n_push = 2
    /\ waited \cap Range(DataIds(out)) # {}


(***************************************************************************)
(* C26: a stats timer firing leaves the data batcher untouched: len,       *)
(* sets_count, the buffered sets and last_send are unchanged by it, so the *)
(* push timer flushes after the tick exactly when it would have flushed    *)
(* before it, and the buffer it emits holds the same sets, with a sequence *)
(* number one higher.                                                      *)
(***************************************************************************)
C26_StatsFrame ==
    [][ n_stats' = n_stats + 1 =>
            /\ db_len' = db_len
            /\ hdr' = hdr
            /\ sets' = sets
            /\ last_send' = last_send
            /\ sequence_number' = Inc32(sequence_number)
            /\ \A i \in 1..Len(out') : out'[i].db_type = "DNSFLOW_STATS"
            /\ LET before == dnsflow_push_cb(W, now)
                   after == dnsflow_push_cb(W', now')
               IN  /\ Len(after.out) = Len(before.out)
                   /\ after.last_send = before.last_send
                   /\ after.db_len = before.db_len
                   /\ \A i \in 1..Len(before.out) :
                          /\ after.out[i].body = before.out[i].body
                          /\ after.out[i].db_len = before.out[i].db_len
                          /\ after.out[i].hdr.sets_count
                                 = before.out[i].hdr.sets_count
                          /\ after.out[i].hdr.sequence_number
                                 = Inc32(before.out[i].hdr.sequence_number) ]_vars

\* the stats timer has fired on a partly filled buffer that the push timer
\* is due to flush
C26_Witness ==
    /\ op = "stats"
    /\ sets # <<>>
    /\ db_len < DNSFLOW_PKT_TARGET_SIZE
    /\ now - last_send >= PushTvSec
    /\ dnsflow_push_cb(W, now).out # <<>>


====
